---- MODULE Spec2Model ----
(***************************************************************************)
(* Order evaluation of sdk/src/math/orders.ts: risk classification, limit  *)
(* price resolution, expiry and the quantity the AMM curve may fill.       *)
(* Every function of the file is a pure function of a snapshot (order,     *)
(* user position, market, oracle price, slot, timestamp); the state of the *)
(* model is one such snapshot plus the value returned by the last call.    *)
(***************************************************************************)
EXTENDS Integers, Sequences, FiniteSets, TLC

VARIABLES order, user, market, oraclePriceData, slot, ts, fallbackPrice, ret

vars == <<order, user, market, oraclePriceData, slot, ts, fallbackPrice, ret>>

snapshot == <<order, user, market, oraclePriceData, slot, ts, fallbackPrice>>

(***************************************************************************)
(* Bounds of the model.                                                    *)
(***************************************************************************)
MaxAmount == 4
MaxPosition == 2
MaxPrice == 3
MaxAuctionPrice == 2
MaxTs == 2
MaxSlot == 3
MaxDuration == 2

(***************************************************************************)
(* Program constants and variants.                                         *)
(***************************************************************************)
ZERO == 0
TWO == 2

OrderStatuses == {"init", "open", "filled", "canceled"}
OrderTypes == {"market", "limit", "triggerMarket", "triggerLimit", "oracle"}
Directions == {"long", "short"}
TriggerConditions == {"above", "below", "triggeredAbove", "triggeredBelow"}

\* An absent value (undefined) and a present one.
Undefined == <<>>
Some(v) == <<v>>
IsDefined(x) == x # Undefined
Val(x) == x[1]

Abs(x) == IF x < 0 THEN -x ELSE x
Min(a, b) == IF a < b THEN a ELSE b

isVariant(object, type) == object = type
isOneOfVariant(object, types) == object \in types

\* BN.div and BN.mod truncate toward zero; the remainder has the dividend's sign.
BNdiv(a, b) == IF (a < 0) = (b < 0) THEN Abs(a) \div Abs(b) ELSE -(Abs(a) \div Abs(b))
BNmod(a, b) == a - b * BNdiv(a, b)

(***************************************************************************)
(* Collaborators of orders.ts: the user account, the auction and the AMM   *)
(* curve.  orders.ts passes the slot, the oracle price and the AMM through *)
(* to them and consumes only their answers.                                *)
(***************************************************************************)

\* user.getPerpPosition: the user's position in the market, undefined when none.
getPerpPosition(u, marketIndex) ==
    IF \E i \in 1..Len(u.perpPositions) : u.perpPositions[i].marketIndex = marketIndex
    THEN Some(u.perpPositions[CHOOSE i \in 1..Len(u.perpPositions) :
                                  u.perpPositions[i].marketIndex = marketIndex])
    ELSE Undefined

\* user.getEmptyPosition: a flat position in the market.
getEmptyPosition(u, marketIndex) ==
    [marketIndex |-> marketIndex, baseAssetAmount |-> ZERO]

\* The auction runs from order.slot for order.auctionDuration slots.
isAuctionComplete(o, s) ==
    IF o.auctionDuration = 0 THEN TRUE ELSE s > o.slot + o.auctionDuration

\* The price ramp from auctionStartPrice to auctionEndPrice over the auction;
\* an oracle order's ramp is relative to the oracle price.
getAuctionPrice(o, s, oraclePrice) ==
    LET slotsElapsed == s - o.slot
        deltaDenominator == o.auctionDuration
        deltaNumerator == Min(slotsElapsed, deltaDenominator)
        ramp == IF deltaDenominator = 0
                THEN o.auctionEndPrice
                ELSE o.auctionStartPrice
                     + BNdiv((o.auctionEndPrice - o.auctionStartPrice) * deltaNumerator,
                             deltaDenominator)
    IN  IF isVariant(o.orderType, "oracle") THEN oraclePrice + ramp ELSE ramp

\* The curve re-pegged to the oracle price.
calculateUpdatedAMM(amm, oracle) ==
    [amm EXCEPT !.reservePrice = oracle.price]

\* The quantity that moves the curve's price to limit_price, and the side of
\* the trade that moves it there.
calculateMaxBaseAssetAmountToTrade(amm, limit_price, direction, oracle) ==
    IF limit_price > amm.reservePrice
    THEN <<(limit_price - amm.reservePrice) * amm.depth, "long">>
    ELSE IF limit_price < amm.reservePrice
    THEN <<(amm.reservePrice - limit_price) * amm.depth, "short">>
    ELSE <<0, "long">>

\* The most the curve fills on one side.
calculateMaxBaseAssetAmountFillable(amm, direction) ==
    IF isVariant(direction, "long") THEN amm.maxFillLong ELSE amm.maxFillShort

(***************************************************************************)
(* sdk/src/math/orders.ts                                                  *)
(***************************************************************************)

\* user.getPerpPosition(order.marketIndex) || user.getEmptyPosition(order.marketIndex)
positionOf(u, o) ==
    IF IsDefined(getPerpPosition(u, o.marketIndex))
    THEN Val(getPerpPosition(u, o.marketIndex))
    ELSE getEmptyPosition(u, o.marketIndex)

\* Mutant: the flip threshold is inclusive.
isOrderRiskIncreasingFlipInclusive(u, o) ==
    IF isVariant(o.status, "init") THEN FALSE
    ELSE LET position == positionOf(u, o)
             baseAssetAmountToFill == o.baseAssetAmount - o.baseAssetAmountFilled
         IN  IF position.baseAssetAmount = ZERO THEN TRUE
             ELSE IF position.baseAssetAmount > ZERO /\ isVariant(o.direction, "long")
             THEN TRUE
             ELSE IF position.baseAssetAmount < ZERO /\ isVariant(o.direction, "short")
             THEN TRUE
             ELSE IF baseAssetAmountToFill >= Abs(position.baseAssetAmount) * TWO
             THEN TRUE
             ELSE FALSE

isOrderRiskIncreasing(u, o) ==
    IF isVariant(o.status, "init") THEN FALSE
    ELSE LET position == positionOf(u, o)
             baseAssetAmountToFill == o.baseAssetAmount - o.baseAssetAmountFilled
         IN  IF position.baseAssetAmount = ZERO THEN TRUE
             ELSE IF position.baseAssetAmount > ZERO /\ isVariant(o.direction, "long")
             THEN TRUE
             ELSE IF position.baseAssetAmount < ZERO /\ isVariant(o.direction, "short")
             THEN TRUE
             ELSE IF baseAssetAmountToFill > Abs(position.baseAssetAmount) * TWO
             THEN TRUE
             ELSE FALSE

isOrderRiskIncreasingInSameDirection(u, o) ==
    IF isVariant(o.status, "init") THEN FALSE
    ELSE LET position == positionOf(u, o)
         IN  IF position.baseAssetAmount = ZERO THEN TRUE
             ELSE IF position.baseAssetAmount > ZERO /\ isVariant(o.direction, "long")
             THEN TRUE
             ELSE IF position.baseAssetAmount < ZERO /\ isVariant(o.direction, "short")
             THEN TRUE
             ELSE FALSE

\* Mutant: the order's status is not looked at.
isOrderReduceOnlyIgnoringStatus(u, o) ==
    LET position == positionOf(u, o)
    IN  IF position.baseAssetAmount >= ZERO /\ isVariant(o.direction, "long")
        THEN FALSE
        ELSE IF position.baseAssetAmount <= ZERO /\ isVariant(o.direction, "short")
        THEN FALSE
        ELSE TRUE

\* Mutant: a flat position is compatible with neither direction.
isOrderReduceOnlyFlatStrict(u, o) ==
    IF isVariant(o.status, "init") THEN FALSE
    ELSE LET position == positionOf(u, o)
         IN  IF position.baseAssetAmount > ZERO /\ isVariant(o.direction, "long")
             THEN FALSE
             ELSE IF position.baseAssetAmount < ZERO /\ isVariant(o.direction, "short")
             THEN FALSE
             ELSE TRUE

isOrderReduceOnly(u, o) ==
    IF isVariant(o.status, "init") THEN FALSE
    ELSE LET position == positionOf(u, o)
         IN  IF position.baseAssetAmount >= ZERO /\ isVariant(o.direction, "long")
             THEN FALSE
             ELSE IF position.baseAssetAmount <= ZERO /\ isVariant(o.direction, "short")
             THEN FALSE
             ELSE TRUE

\* Mutant: rounds up to the next multiple of the step size.
standardizeBaseAssetAmountRoundingUp(baseAssetAmount, stepSize) ==
    LET remainder == BNmod(baseAssetAmount, stepSize)
    IN  IF remainder = 0 THEN baseAssetAmount ELSE baseAssetAmount - remainder + stepSize

standardizeBaseAssetAmount(baseAssetAmount, stepSize) ==
    LET remainder == BNmod(baseAssetAmount, stepSize)
    IN  baseAssetAmount - remainder

mustBeTriggered(o) ==
    isOneOfVariant(o.orderType, {"triggerMarket", "triggerLimit"})

isTriggered(o) ==
    isOneOfVariant(o.triggerCondition, {"triggeredAbove", "triggeredBelow"})

isMarketOrder(o) ==
    isOneOfVariant(o.orderType, {"market", "triggerMarket", "oracle"})

isLimitOrder(o) ==
    isOneOfVariant(o.orderType, {"limit", "triggerLimit"})

hasAuctionPrice(o, s) ==
    /\ ~isAuctionComplete(o, s)
    /\ (o.auctionStartPrice # ZERO \/ o.auctionEndPrice # ZERO)

\* Mutant: the oracle offset is looked at before the auction.
getLimitPriceOffsetFirst(o, oracle, s, fallback) ==
    IF o.oraclePriceOffset # 0 THEN Some(oracle.price + o.oraclePriceOffset)
    ELSE IF hasAuctionPrice(o, s) THEN Some(getAuctionPrice(o, s, oracle.price))
    ELSE IF o.price = ZERO THEN fallback
    ELSE Some(o.price)

\* fallback is the optional fourth argument: Undefined when the caller omits it.
getLimitPrice(o, oracle, s, fallback) ==
    IF hasAuctionPrice(o, s) THEN Some(getAuctionPrice(o, s, oracle.price))
    ELSE IF o.oraclePriceOffset # 0 THEN Some(oracle.price + o.oraclePriceOffset)
    ELSE IF o.price = ZERO THEN fallback
    ELSE Some(o.price)

\* Mutant: the oracle offset is not looked at.
hasLimitPriceIgnoringOffset(o, s) ==
    \/ o.price > ZERO
    \/ ~isAuctionComplete(o, s)

hasLimitPrice(o, s) ==
    \/ o.price > ZERO
    \/ o.oraclePriceOffset # 0
    \/ ~isAuctionComplete(o, s)

isSameDirection(firstDirection, secondDirection) ==
    \/ (isVariant(firstDirection, "long") /\ isVariant(secondDirection, "long"))
    \/ (isVariant(firstDirection, "short") /\ isVariant(secondDirection, "short"))

calculateBaseAssetAmountToFillUpToLimitPrice(o, amm, limitPrice, oracle) ==
    LET adjustedLimitPrice == IF isVariant(o.direction, "long")
                              THEN limitPrice - amm.orderTickSize
                              ELSE limitPrice + amm.orderTickSize
        trade == calculateMaxBaseAssetAmountToTrade(amm, adjustedLimitPrice,
                                                    o.direction, oracle)
        maxAmountToTrade == trade[1]
        direction == trade[2]
        baseAssetAmount == standardizeBaseAssetAmount(maxAmountToTrade, amm.orderStepSize)
        sameDirection == isSameDirection(direction, o.direction)
        baseAssetAmountUnfilled == o.baseAssetAmount - o.baseAssetAmountFilled
    IN  IF ~sameDirection THEN ZERO
        ELSE IF baseAssetAmount > baseAssetAmountUnfilled
        THEN baseAssetAmountUnfilled
        ELSE baseAssetAmount

calculateBaseAssetAmountForAmmToFulfill(o, m, oracle, s) ==
    IF mustBeTriggered(o) /\ ~isTriggered(o) THEN ZERO
    ELSE LET limitPrice == getLimitPrice(o, oracle, s, Undefined)
             updatedAMM == calculateUpdatedAMM(m.amm, oracle)
             baseAssetAmount ==
                 IF IsDefined(limitPrice)
                 THEN calculateBaseAssetAmountToFillUpToLimitPrice(
                          o, updatedAMM, Val(limitPrice), oracle)
                 ELSE o.baseAssetAmount - o.baseAssetAmountFilled
             maxBaseAssetAmount ==
                 calculateMaxBaseAssetAmountFillable(updatedAMM, o.direction)
         IN  Min(maxBaseAssetAmount, baseAssetAmount)

\* Mutant: the order expires at maxTs already.
isOrderExpiredInclusive(o, t) ==
    IF \/ mustBeTriggered(o)
       \/ ~isVariant(o.status, "open")
       \/ o.maxTs = ZERO
    THEN FALSE
    ELSE t >= o.maxTs

isOrderExpired(o, t) ==
    IF \/ mustBeTriggered(o)
       \/ ~isVariant(o.status, "open")
       \/ o.maxTs = ZERO
    THEN FALSE
    ELSE t > o.maxTs

\* Mutant: expiry is not looked at.
isFillableByVAMMIgnoringExpiry(o, m, oracle, s, t) ==
    /\ isAuctionComplete(o, s)
    /\ calculateBaseAssetAmountForAmmToFulfill(o, m, oracle, s) >= m.amm.minOrderSize

\* Mutant: the quantity must exceed the minimum order size.
isFillableByVAMMStrict(o, m, oracle, s, t) ==
    \/ /\ isAuctionComplete(o, s)
       /\ calculateBaseAssetAmountForAmmToFulfill(o, m, oracle, s) > m.amm.minOrderSize
    \/ isOrderExpired(o, t)

isFillableByVAMM(o, m, oracle, s, t) ==
    \/ /\ isAuctionComplete(o, s)
       /\ calculateBaseAssetAmountForAmmToFulfill(o, m, oracle, s) >= m.amm.minOrderSize
    \/ isOrderExpired(o, t)

isRestingLimitOrder(o, s) ==
    isLimitOrder(o) /\ (o.postOnly \/ isAuctionComplete(o, s))

isTakingOrder(o, s) ==
    isMarketOrder(o) \/ ~isRestingLimitOrder(o, s)

(***************************************************************************)
(* Snapshots.                                                              *)
(***************************************************************************)
Amounts == 0..MaxAmount
Positions == (0 - MaxPosition)..MaxPosition
Prices == 0..MaxPrice
Timestamps == 0..(MaxTs + 1)

NoCall == [fn |-> "none", val |-> FALSE]

\* A user without a perp position, and one holding p in market 0.
Users ==
    {[perpPositions |-> <<>>]}
    \cup {[perpPositions |-> <<[marketIndex |-> 0, baseAssetAmount |-> p]>>] : p \in Positions}

\* A market whose curve is not consulted.
IdleMarket ==
    [amm |-> [minOrderSize |-> 1, orderTickSize |-> 1, orderStepSize |-> 1,
              reservePrice |-> 1, depth |-> 1, maxFillLong |-> 0, maxFillShort |-> 0]]

(***************************************************************************)
(* Calls.  Each evaluates one exported function on the snapshot and keeps  *)
(* what it returned; the snapshot is read only.                            *)
(***************************************************************************)
Call(fn, val) ==
    /\ ret' = [fn |-> fn, val |-> val]
    /\ UNCHANGED snapshot

CallIsOrderRiskIncreasing ==
    Call("isOrderRiskIncreasing", isOrderRiskIncreasing(user, order))

CallIsOrderRiskIncreasingInSameDirection ==
    Call("isOrderRiskIncreasingInSameDirection",
         isOrderRiskIncreasingInSameDirection(user, order))

CallIsOrderReduceOnly ==
    Call("isOrderReduceOnly", isOrderReduceOnly(user, order))

CallIsOrderExpired ==
    Call("isOrderExpired", isOrderExpired(order, ts))

CallGetLimitPrice ==
    Call("getLimitPrice", getLimitPrice(order, oraclePriceData, slot, fallbackPrice))

CallHasLimitPrice ==
    Call("hasLimitPrice", hasLimitPrice(order, slot))

CallCalculateBaseAssetAmountForAmmToFulfill ==
    Call("calculateBaseAssetAmountForAmmToFulfill",
         calculateBaseAssetAmountForAmmToFulfill(order, market, oraclePriceData, slot))

CallIsFillableByVAMM ==
    Call("isFillableByVAMM", isFillableByVAMM(order, market, oraclePriceData, slot, ts))

\* The caller's clock moves on: the next evaluation sees a later timestamp.
AdvanceTs ==
    /\ ts < MaxTs + 1
    /\ ts' = ts + 1
    /\ ret' = NoCall
    /\ UNCHANGED <<order, user, market, oraclePriceData, slot, fallbackPrice>>

\* The caller's slot moves on: the next evaluation sees a later slot.
AdvanceSlot ==
    /\ slot < MaxSlot
    /\ slot' = slot + 1
    /\ ret' = NoCall
    /\ UNCHANGED <<order, user, market, oraclePriceData, ts, fallbackPrice>>

\* The user's position in the order's market, 0 when the user has none.
PositionAmount ==
    IF user.perpPositions = <<>> THEN 0 ELSE user.perpPositions[1].baseAssetAmount

Unfilled == order.baseAssetAmount - order.baseAssetAmountFilled

(***************************************************************************)
(* Risk classification: the order's status, direction and size against the *)
(* user's position.                                                        *)
(***************************************************************************)
InitRisk ==
    /\ order \in {o \in [status : OrderStatuses, orderType : OrderTypes,
                         direction : Directions, marketIndex : {0},
                         baseAssetAmount : Amounts, baseAssetAmountFilled : Amounts,
                         price : {0}, oraclePriceOffset : {0},
                         auctionStartPrice : {0}, auctionEndPrice : {0},
                         triggerCondition : {"above"},
                         maxTs : 0..MaxTs, slot : {0}, auctionDuration : {0},
                         postOnly : {FALSE}] :
                      o.baseAssetAmountFilled <= o.baseAssetAmount}
    /\ user \in Users
    /\ market = IdleMarket
    /\ oraclePriceData = [price |-> 1]
    /\ slot = 0
    /\ ts \in Timestamps
    /\ fallbackPrice = Undefined
    /\ ret = NoCall

NextRisk ==
    \/ CallIsOrderRiskIncreasing
    \/ CallIsOrderRiskIncreasingInSameDirection
    \/ CallIsOrderReduceOnly
    \/ CallIsOrderExpired
    \/ AdvanceTs

SpecRisk == InitRisk /\ [][NextRisk]_vars

\* C5: for an order that is not uninitialized, isOrderRiskIncreasing is true
\* iff the position is flat, or position and order share a direction, or the
\* order opposes the position and its unfilled remainder exceeds twice the
\* position's size (strictly).
RiskIncreasingMatchesReference ==
    (ret.fn = "isOrderRiskIncreasing" /\ order.status # "init") =>
        ret.val = (\/ PositionAmount = 0
                   \/ PositionAmount > 0 /\ order.direction = "long"
                   \/ PositionAmount < 0 /\ order.direction = "short"
                   \/ /\ \/ PositionAmount > 0 /\ order.direction = "short"
                         \/ PositionAmount < 0 /\ order.direction = "long"
                      /\ Unfilled > 2 * Abs(PositionAmount))

\* An opposite order whose remainder is exactly twice the position: not risk increasing.
FlipAtThresholdEvaluated ==
    /\ ret.fn = "isOrderRiskIncreasing"
    /\ order.status = "open"
    /\ PositionAmount = 2
    /\ order.direction = "short"
    /\ Unfilled = 4
    /\ ret.val = FALSE

\* C6: for an uninitialized order the three risk predicates and isOrderExpired
\* all return false, whatever the other fields, the position and the timestamp.
UninitializedOrderIsInert ==
    (order.status = "init"
     /\ ret.fn \in {"isOrderRiskIncreasing", "isOrderRiskIncreasingInSameDirection",
                    "isOrderReduceOnly", "isOrderExpired"}) =>
        ret.val = FALSE

\* An uninitialized short order against a long position: reduce-only for any
\* other status.
UninitializedReduceOnlyEvaluated ==
    /\ ret.fn = "isOrderReduceOnly"
    /\ order.status = "init"
    /\ PositionAmount > 0
    /\ order.direction = "short"
    /\ ret.val = FALSE

\* C8: for an order that is not uninitialized, isOrderReduceOnly is false iff
\* (position >= 0 and order long) or (position <= 0 and order short); for a
\* flat position it is false for both directions while isOrderRiskIncreasing
\* is true.
ReduceOnlyMatchesReference ==
    /\ (ret.fn = "isOrderReduceOnly" /\ order.status # "init") =>
           ret.val = ~(\/ PositionAmount >= 0 /\ order.direction = "long"
                       \/ PositionAmount <= 0 /\ order.direction = "short")
    /\ (ret.fn = "isOrderReduceOnly" /\ order.status # "init" /\ PositionAmount = 0) =>
           (ret.val = FALSE /\ isOrderRiskIncreasing(user, order))
    /\ (ret.fn = "isOrderRiskIncreasing" /\ order.status # "init" /\ PositionAmount = 0) =>
           ret.val = TRUE

\* A short order against a flat position: not reduce-only.
FlatPositionReduceOnlyEvaluated ==
    /\ ret.fn = "isOrderReduceOnly"
    /\ order.status = "open"
    /\ user.perpPositions # <<>>
    /\ PositionAmount = 0
    /\ order.direction = "short"
    /\ ret.val = FALSE

(***************************************************************************)
(* Expiry: the order's status, type, trigger state and expiration against  *)
(* the timestamp.                                                          *)
(***************************************************************************)
InitExpiry ==
    /\ order \in [status : OrderStatuses, orderType : OrderTypes,
                  direction : Directions, marketIndex : {0},
                  baseAssetAmount : {1}, baseAssetAmountFilled : {0},
                  price : {0}, oraclePriceOffset : {0},
                  auctionStartPrice : {0}, auctionEndPrice : {0},
                  triggerCondition : TriggerConditions,
                  maxTs : 0..MaxTs, slot : {0}, auctionDuration : {0},
                  postOnly : {FALSE}]
    /\ user = [perpPositions |-> <<>>]
    /\ market = IdleMarket
    /\ oraclePriceData = [price |-> 1]
    /\ slot = 0
    /\ ts \in Timestamps
    /\ fallbackPrice = Undefined
    /\ ret = NoCall

NextExpiry ==
    \/ CallIsOrderExpired
    \/ AdvanceTs

SpecExpiry == InitExpiry /\ [][NextExpiry]_vars

\* C9: isOrderExpired is true iff the order is open, its type is not trigger
\* gated (triggered or not), maxTs is not 0 and ts > maxTs strictly; and for
\* a fixed order, once it is expired it is expired at every later timestamp.
ExpiredMatchesReference ==
    /\ [](ret.fn = "isOrderExpired" =>
            ret.val = (/\ order.status = "open"
                       /\ order.orderType \notin {"triggerMarket", "triggerLimit"}
                       /\ order.maxTs # 0
                       /\ ts > order.maxTs))
    /\ [][(isOrderExpired(order, ts) /\ order' = order /\ ts' >= ts)
              => isOrderExpired(order', ts')]_vars

\* An open limit order evaluated exactly at its expiration: not expired yet.
ExpiryAtMaxTsEvaluated ==
    /\ ret.fn = "isOrderExpired"
    /\ order.status = "open"
    /\ order.orderType = "limit"
    /\ order.maxTs = 2
    /\ ts = order.maxTs
    /\ ret.val = FALSE

(***************************************************************************)
(* Limit price resolution: the order's static price, oracle offset and     *)
(* auction against the oracle price and the slot.                          *)
(***************************************************************************)
Offsets == {0 - 1, 0, 1}
AuctionPrices == 0..MaxAuctionPrice
OraclePrices == 1..MaxPrice

InitPrice ==
    /\ order \in [status : {"open"}, orderType : {"limit", "oracle"},
                  direction : {"long"}, marketIndex : {0},
                  baseAssetAmount : {1}, baseAssetAmountFilled : {0},
                  price : Prices, oraclePriceOffset : Offsets,
                  auctionStartPrice : AuctionPrices, auctionEndPrice : AuctionPrices,
                  triggerCondition : {"above"},
                  maxTs : {0}, slot : {0}, auctionDuration : 0..MaxDuration,
                  postOnly : {FALSE}]
    /\ user = [perpPositions |-> <<>>]
    /\ market = IdleMarket
    /\ oraclePriceData \in [price : OraclePrices]
    /\ slot \in 0..MaxSlot
    /\ ts = 0
    /\ fallbackPrice \in {Undefined, Some(MaxPrice)}
    /\ ret = NoCall

NextPrice ==
    \/ CallGetLimitPrice
    \/ CallHasLimitPrice
    \/ AdvanceSlot

SpecPrice == InitPrice /\ [][NextPrice]_vars

AuctionActive ==
    /\ ~isAuctionComplete(order, slot)
    /\ (order.auctionStartPrice # 0 \/ order.auctionEndPrice # 0)

\* C4: getLimitPrice resolves by strict precedence: the auction price while
\* the auction is active, else oracle price + offset when the offset is not
\* 0, else the fallback (undefined when none) when the static price is 0,
\* else the static price.
LimitPricePrecedence ==
    ret.fn = "getLimitPrice" =>
        /\ AuctionActive =>
               ret.val = Some(getAuctionPrice(order, slot, oraclePriceData.price))
        /\ (~AuctionActive /\ order.oraclePriceOffset # 0) =>
               ret.val = Some(oraclePriceData.price + order.oraclePriceOffset)
        /\ (~AuctionActive /\ order.oraclePriceOffset = 0 /\ order.price = 0) =>
               ret.val = fallbackPrice
        /\ (~AuctionActive /\ order.oraclePriceOffset = 0 /\ order.price # 0) =>
               ret.val = Some(order.price)

\* An active auction on an order that also has an offset and a static price,
\* the three candidate prices all different: the auction price is returned.
AuctionPriceWinsEvaluated ==
    /\ ret.fn = "getLimitPrice"
    /\ AuctionActive
    /\ order.oraclePriceOffset # 0
    /\ order.price # 0
    /\ getAuctionPrice(order, slot, oraclePriceData.price)
           # oraclePriceData.price + order.oraclePriceOffset
    /\ getAuctionPrice(order, slot, oraclePriceData.price) # order.price
    /\ oraclePriceData.price + order.oraclePriceOffset # order.price
    /\ ret.val = Some(getAuctionPrice(order, slot, oraclePriceData.price))

\* C10 as stated: hasLimitPrice is true exactly when getLimitPrice without a
\* fallback returns a defined price.
HasLimitPriceIffLimitPriceDefined ==
    ret.fn = "hasLimitPrice" =>
        ret.val = IsDefined(getLimitPrice(order, oraclePriceData, slot, Undefined))

\* C10 amended: hasLimitPrice is true exactly when getLimitPrice without a
\* fallback returns a defined price or the auction is not complete.
HasLimitPriceIffDefinedOrAuctioning ==
    ret.fn = "hasLimitPrice" =>
        ret.val = (\/ IsDefined(getLimitPrice(order, oraclePriceData, slot, Undefined))
                   \/ ~isAuctionComplete(order, slot))

\* An order with no static price, no offset and an incomplete auction whose
\* bounds are both 0: hasLimitPrice is true, getLimitPrice is undefined.
AuctioningWithoutPriceEvaluated ==
    /\ ret.fn = "hasLimitPrice"
    /\ order.price = 0
    /\ order.oraclePriceOffset = 0
    /\ order.auctionStartPrice = 0 /\ order.auctionEndPrice = 0
    /\ ~isAuctionComplete(order, slot)
    /\ getLimitPrice(order, oraclePriceData, slot, Undefined) = Undefined
    /\ ret.val = TRUE

(***************************************************************************)
(* The quantity the curve may fill: the order's trigger state, direction,  *)
(* remainder and limit price against the curve.                            *)
(***************************************************************************)
\* Order type and trigger condition: only a trigger order carries a
\* trigger condition other than the default.
TypeAndTrigger ==
    {tt \in OrderTypes \X TriggerConditions :
        tt[1] \in {"triggerMarket", "triggerLimit"} \/ tt[2] = "above"}

TickSizes == {0, 1}
StepSizes == {1, 2}
Depths == {1, 3}
\* The curve's capacity on the long and on the short side.  The reserve price
\* of every curve is stale (0) until calculateUpdatedAMM re-pegs it.
FillCaps == {<<1, MaxAmount>>, <<MaxAmount, 0>>}

Curves(minOrderSizes, tickSizes, stepSizes, depths) ==
    {[amm |-> [minOrderSize |-> mos, orderTickSize |-> tick, orderStepSize |-> step,
               reservePrice |-> 0, depth |-> d,
               maxFillLong |-> cap[1], maxFillShort |-> cap[2]]] :
        mos \in minOrderSizes, tick \in tickSizes, step \in stepSizes,
        d \in depths, cap \in FillCaps}

InitQty ==
    /\ order \in {[o EXCEPT !.orderType = tt[1], !.triggerCondition = tt[2]] :
                    o \in [status : {"open"}, orderType : {"market"},
                           direction : Directions, marketIndex : {0},
                           baseAssetAmount : {MaxAmount},
                           baseAssetAmountFilled : Amounts,
                           price : Prices, oraclePriceOffset : {0, 1},
                           auctionStartPrice : {0},
                           auctionEndPrice : {0, MaxAuctionPrice},
                           triggerCondition : {"above"},
                           maxTs : {0}, slot : {0}, auctionDuration : {1},
                           postOnly : {FALSE}],
                    tt \in TypeAndTrigger}
    /\ user = [perpPositions |-> <<>>]
    /\ market \in Curves({1}, TickSizes, StepSizes, Depths)
    /\ oraclePriceData \in [price : {1, 2}]
    /\ slot \in {1, 2}
    /\ ts = 0
    /\ fallbackPrice = Undefined
    /\ ret = NoCall

NextQty ==
    CallCalculateBaseAssetAmountForAmmToFulfill

SpecQty == InitQty /\ [][NextQty]_vars

UntriggeredTriggerOrder ==
    /\ order.orderType \in {"triggerMarket", "triggerLimit"}
    /\ order.triggerCondition \notin {"triggeredAbove", "triggeredBelow"}

\* The curve-fillable quantity as the claims state it.
QtyReference ==
    IF UntriggeredTriggerOrder THEN 0
    ELSE LET updated == calculateUpdatedAMM(market.amm, oraclePriceData)
             M == calculateMaxBaseAssetAmountFillable(updated, order.direction)
             L == getLimitPrice(order, oraclePriceData, slot, Undefined)
             adjusted == IF order.direction = "long"
                         THEN Val(L) - updated.orderTickSize
                         ELSE Val(L) + updated.orderTickSize
             answer == calculateMaxBaseAssetAmountToTrade(updated, adjusted,
                                                          order.direction, oraclePriceData)
             q == answer[1]
             C == IF L = Undefined THEN Unfilled
                  ELSE IF answer[2] # order.direction THEN 0
                  ELSE Min(q - (q % updated.orderStepSize), Unfilled)
         IN  Min(M, C)

\* The raw quantity the curve answers at the order's adjusted limit price.
RawCurveAnswer ==
    LET updated == calculateUpdatedAMM(market.amm, oraclePriceData)
        L == getLimitPrice(order, oraclePriceData, slot, Undefined)
        adjusted == IF order.direction = "long"
                    THEN Val(L) - updated.orderTickSize
                    ELSE Val(L) + updated.orderTickSize
    IN  calculateMaxBaseAssetAmountToTrade(updated, adjusted, order.direction,
                                           oraclePriceData)

\* C3: calculateBaseAssetAmountForAmmToFulfill is 0 for an untriggered trigger
\* order; otherwise the smaller of the curve's maximum fillable quantity on
\* the order's side and: the unfilled remainder when no limit price is
\* defined, 0 when the curve answers the other direction, else the curve's
\* quantity at the limit price moved one tick against the order, rounded
\* down to the step size and capped at the unfilled remainder.
FulfillQuantityMatchesReference ==
    ret.fn = "calculateBaseAssetAmountForAmmToFulfill" => ret.val = QtyReference

\* A raw curve quantity of 3 with step 2 on an order with room for it: 2.
RoundedDownQuantityEvaluated ==
    /\ ret.fn = "calculateBaseAssetAmountForAmmToFulfill"
    /\ ~UntriggeredTriggerOrder
    /\ IsDefined(getLimitPrice(order, oraclePriceData, slot, Undefined))
    /\ market.amm.orderTickSize = 1
    /\ market.amm.orderStepSize = 2
    /\ RawCurveAnswer = <<3, order.direction>>
    /\ Unfilled >= 3
    /\ ret.val = 2

(***************************************************************************)
(* Fill eligibility: auction state, curve quantity against the market's    *)
(* minimum order size, and expiry.                                         *)
(***************************************************************************)
MinOrderSizes == 0..2

InitFill ==
    /\ order \in {[o EXCEPT !.orderType = tt[1], !.triggerCondition = tt[2]] :
                    o \in [status : {"open", "filled"}, orderType : {"market"},
                           direction : Directions, marketIndex : {0},
                           baseAssetAmount : {MaxAmount},
                           baseAssetAmountFilled : Amounts,
                           price : {0, MaxPrice}, oraclePriceOffset : {0},
                           auctionStartPrice : {0},
                           auctionEndPrice : {0, MaxAuctionPrice},
                           triggerCondition : {"above"},
                           maxTs : {0, MaxTs}, slot : {0}, auctionDuration : {0, 1},
                           postOnly : {FALSE}],
                    tt \in TypeAndTrigger}
    /\ user = [perpPositions |-> <<>>]
    /\ market \in Curves(MinOrderSizes, {1}, {1}, {1})
    /\ oraclePriceData = [price |-> 1]
    /\ slot \in {1, 2}
    /\ ts = MaxTs
    /\ fallbackPrice = Undefined
    /\ ret = NoCall

NextFill ==
    \/ CallIsFillableByVAMM
    \/ AdvanceTs
    \/ AdvanceSlot

SpecFill == InitFill /\ [][NextFill]_vars

\* Expiry as the claims state it.
ExpiredReference ==
    /\ order.status = "open"
    /\ order.orderType \notin {"triggerMarket", "triggerLimit"}
    /\ order.maxTs # 0
    /\ ts > order.maxTs

\* C1: isFillableByVAMM is true exactly when (the auction is complete and the
\* curve-fillable quantity is at least the market's minimum order size) or
\* the order is expired: an expired order is fillable whatever the auction
\* and the quantity, a non-expired order in auction never is.
FillableMatchesReference ==
    ret.fn = "isFillableByVAMM" =>
        /\ ret.val = (\/ /\ isAuctionComplete(order, slot)
                         /\ QtyReference >= market.amm.minOrderSize
                      \/ ExpiredReference)
        /\ ExpiredReference => ret.val = TRUE
        /\ (~ExpiredReference /\ ~isAuctionComplete(order, slot)) => ret.val = FALSE

\* An expired order still in auction whose curve quantity is below the minimum.
ExpiredInAuctionEvaluated ==
    /\ ret.fn = "isFillableByVAMM"
    /\ ExpiredReference
    /\ ~isAuctionComplete(order, slot)
    /\ QtyReference < market.amm.minOrderSize
    /\ ret.val = TRUE

\* C2: an untriggered trigger order is never fillable by the curve, for every
\* market (minimum order size 0 included), slot, timestamp and auction state.
UntriggeredNeverFillable ==
    (ret.fn = "isFillableByVAMM" /\ UntriggeredTriggerOrder) => ret.val = FALSE

\* An open market order without static price, offset or limit price.
UnconstrainedMarketOrder ==
    /\ order.status = "open"
    /\ order.orderType = "market"
    /\ order.price = 0
    /\ order.oraclePriceOffset = 0
    /\ getLimitPrice(order, oraclePriceData, slot, Undefined) = Undefined

\* min(unfilled remainder, curve maximum fillable quantity).
UnconstrainedQuantity ==
    Min(Unfilled,
        calculateMaxBaseAssetAmountFillable(
            calculateUpdatedAMM(market.amm, oraclePriceData), order.direction))

\* C7 as stated: such an order is fillable whenever min(unfilled remainder,
\* curve maximum) is at least the minimum order size, at every slot and
\* timestamp.
MarketOrderFillableAtEverySlot ==
    (ret.fn = "isFillableByVAMM" /\ UnconstrainedMarketOrder
     /\ UnconstrainedQuantity >= market.amm.minOrderSize) =>
        ret.val = TRUE

\* C7 amended: such an order is fillable whenever its auction is complete
\* and min(unfilled remainder, curve maximum) is at least the minimum order
\* size.
MarketOrderFillableAfterAuction ==
    (ret.fn = "isFillableByVAMM" /\ UnconstrainedMarketOrder
     /\ isAuctionComplete(order, slot)
     /\ UnconstrainedQuantity >= market.amm.minOrderSize) =>
        ret.val = TRUE

\* A non-expired market order of remainder 4 on a curve that fills at most 1,
\* the minimum order size being 1.
CappedMarketOrderEvaluated ==
    /\ ret.fn = "isFillableByVAMM"
    /\ UnconstrainedMarketOrder
    /\ isAuctionComplete(order, slot)
    /\ ~ExpiredReference
    /\ Unfilled = 4
    /\ UnconstrainedQuantity = 1
    /\ market.amm.minOrderSize = 1
    /\ ret.val = TRUE

====
